---- MODULE Spec2Model ----
(***************************************************************************)
(* Model of app.py: the formula-aware range copy of /copy-range.           *)
(*                                                                         *)
(* Text is a sequence of one-character strings.  Python's None is the      *)
(* value None below.  A Python call that may raise is an operator that     *)
(* yields a record [exc, val]: exc = "" when the call returns val, and     *)
(* the exception's class name when it raises.                              *)
(***************************************************************************)
EXTENDS Integers, Sequences, FiniteSets, TLC

(***************************************************************************)
(* Bounds of the model.                                                    *)
(***************************************************************************)
\* number of pieces a formula under test is assembled from
MaxPieces == 3
\* number of rows of the destination sheet scanned by the anchor locator
MaxRow == 3

(***************************************************************************)
(* Python values                                                           *)
(***************************************************************************)
None == <<"None">>

Ok(v) == [exc |-> "", val |-> v]

Raise(e) == [exc |-> e, val |-> None]

Min(S) == CHOOSE x \in S : \A y \in S : x <= y

Max(S) == CHOOSE x \in S : \A y \in S : x >= y

Uppers == <<"A","B","C","D","E","F","G","H","I","J","K","L","M",
            "N","O","P","Q","R","S","T","U","V","W","X","Y","Z">>

Lowers == <<"a","b","c","d","e","f","g","h","i","j","k","l","m",
            "n","o","p","q","r","s","t","u","v","w","x","y","z">>

Digits == <<"0","1","2","3","4","5","6","7","8","9">>

UpperSet == {Uppers[i] : i \in 1..26}

LowerSet == {Lowers[i] : i \in 1..26}

DigitSet == {Digits[i] : i \in 1..10}

\* the regex class [A-Za-z0-9_]
WordSet == UpperSet \cup LowerSet \cup DigitSet \cup {"_"}

\* characters str.strip() removes
SpaceSet == {" "}

\* str.upper() of one character (str.casefold() agrees with it up to case on
\* this alphabet: both identify a letter with its other case)
UpperChar(c) == IF c \in LowerSet THEN Uppers[CHOOSE i \in 1..26 : Lowers[i] = c] ELSE c

LowerChar(c) == IF c \in UpperSet THEN Lowers[CHOOSE i \in 1..26 : Uppers[i] = c] ELSE c

StrUpper(s) == [i \in 1..Len(s) |-> UpperChar(s[i])]

StrCasefold(s) == [i \in 1..Len(s) |-> LowerChar(s[i])]

\* s.startswith(p)
StartsWith(s, p) == Len(s) >= Len(p) /\ SubSeq(s, 1, Len(p)) = p

\* `p in s` for strings
Contains(s, p) == \E i \in 1..(Len(s) - Len(p) + 1) : SubSeq(s, i, i + Len(p) - 1) = p

\* s.count(c) for a one-character c
RECURSIVE CountChar(_, _)
CountChar(s, c) ==
    IF s = <<>> THEN 0
    ELSE (IF Head(s) = c THEN 1 ELSE 0) + CountChar(Tail(s), c)

\* ''.join(filter(pred, s)) for pred = str.isalpha / str.isdigit
RECURSIVE FilterChars(_, _)
FilterChars(s, S) ==
    IF s = <<>> THEN <<>>
    ELSE (IF Head(s) \in S THEN <<Head(s)>> ELSE <<>>) \o FilterChars(Tail(s), S)

DigitVal(c) == (CHOOSE i \in 1..10 : Digits[i] = c) - 1

RECURSIVE DigitsToNat(_)
DigitsToNat(s) ==
    IF s = <<>> THEN 0
    ELSE 10 * DigitsToNat(SubSeq(s, 1, Len(s) - 1)) + DigitVal(s[Len(s)])

\* int(x) for the values the program hands to it: None raises TypeError, a
\* non-empty string of digits is its number, any other text raises ValueError
PyInt(x) ==
    IF x = None THEN Raise("TypeError")
    ELSE IF x # <<>> /\ \A i \in 1..Len(x) : x[i] \in DigitSet THEN Ok(DigitsToNat(x))
    ELSE Raise("ValueError")

RECURSIVE NatToStr(_)
NatToStr(n) ==
    IF n < 10 THEN <<Digits[n + 1]>>
    ELSE NatToStr(n \div 10) \o <<Digits[(n % 10) + 1]>>

\* str(n) / f"{n}" of an integer
IntToStr(n) == IF n < 0 THEN <<"-">> \o NatToStr(-n) ELSE NatToStr(n)

\* f"{x}" of a string or None
Fmt(x) == IF x = None THEN <<"N","o","n","e">> ELSE x

\* `a or b`
PyOr(a, b) == IF a = None \/ a = <<>> THEN b ELSE a

(***************************************************************************)
(* openpyxl.utils: column letters <-> column index (bijective base 26)     *)
(***************************************************************************)
LetterVal(c) == CHOOSE i \in 1..26 : Uppers[i] = c

RECURSIVE LettersToIndex(_)
LettersToIndex(s) ==
    IF s = <<>> THEN 0
    ELSE 26 * LettersToIndex(SubSeq(s, 1, Len(s) - 1)) + LetterVal(s[Len(s)])

column_index_from_string(s) ==
    IF s = None THEN Raise("AttributeError")
    ELSE LET u == StrUpper(s)
         IN  IF Len(u) \in 1..3 /\ \A i \in 1..Len(u) : u[i] \in UpperSet
             THEN Ok(LettersToIndex(u))
             ELSE Raise("ValueError")

RECURSIVE IndexToLetters(_)
IndexToLetters(i) ==
    IF i <= 0 THEN <<>>
    ELSE IndexToLetters((i - 1) \div 26) \o <<Uppers[((i - 1) % 26) + 1]>>

get_column_letter(i) ==
    IF i >= 1 /\ i <= 18278 THEN Ok(IndexToLetters(i)) ELSE Raise("ValueError")

(***************************************************************************)
(* cell_or_range_pattern: the compiled regular expression                  *)
(*   (?:(?:'[^']+'|[A-Za-z0-9_]+)!)?(\$?)([A-Z]{1,3})(\$(\d+)|(\d+))       *)
(*   (?::(?:(?:'[^']+'|[A-Za-z0-9_]+)!)?(\$?)([A-Z]{1,3})(\$(\d+)|(\d+)))? *)
(* matched the way a backtracking matcher does.  Positions are 1-based;    *)
(* an "end" is the position after the last matched character.              *)
(***************************************************************************)
At(f, p) == IF p >= 1 /\ p <= Len(f) THEN f[p] ELSE ""

\* end of the longest run of characters of S starting at p
RunEnd(f, p, S) ==
    LET stop == {q \in p..Len(f) : f[q] \notin S}
    IN  IF stop = {} THEN Max({Len(f) + 1, p}) ELSE Min(stop)

\* end of the longest run of characters other than c starting at p
RunEndNot(f, p, c) ==
    LET stop == {q \in p..Len(f) : f[q] = c}
    IN  IF stop = {} THEN Max({Len(f) + 1, p}) ELSE Min(stop)

\* _token: (?:'[^']+'|[A-Za-z0-9_]+)!  at p; the end of the match, 0 if none.
\* Each run must reach the character before the quote or the "!", so the
\* greedy run is the only candidate.
MatchToken(f, p) ==
    IF At(f, p) = "'"
    THEN LET q == RunEndNot(f, p + 1, "'")
         IN  IF q > p + 1 /\ At(f, q) = "'" /\ At(f, q + 1) = "!" THEN q + 2 ELSE 0
    ELSE IF At(f, p) \in WordSet
    THEN LET q == RunEnd(f, p, WordSet)
         IN  IF At(f, q) = "!" THEN q + 1 ELSE 0
    ELSE 0

NoGroups == <<None, None, None, None, None>>

\* cell_ref: (\$?)([A-Z]{1,3})(\$(\d+)|(\d+)) at p.  After one to three
\* capitals the next character must be "$" or a digit, so a run of four or
\* more capitals matches nowhere from its first letter.
MatchCellRef(f, p) ==
    LET a    == IF At(f, p) = "$" THEN p + 1 ELSE p
        l    == RunEnd(f, a, UpperSet)
        abs  == At(f, l) = "$"
        d    == IF abs THEN l + 1 ELSE l
        e    == RunEnd(f, d, DigitSet)
        num  == SubSeq(f, d, e - 1)
    IN  IF l - a \in 1..3 /\ e > d
        THEN [ok |-> TRUE, end |-> e,
              groups |-> << SubSeq(f, p, a - 1), SubSeq(f, a, l - 1), SubSeq(f, l, e - 1),
                            IF abs THEN num ELSE None, IF abs THEN None ELSE num >>]
        ELSE [ok |-> FALSE, end |-> p, groups |-> NoGroups]

\* a match of sheet_prefix cell_ref whose cell reference r starts at ref
PrefixedRef(r, ref) == [ok |-> r.ok, end |-> r.end, groups |-> r.groups, ref |-> ref]

\* the prefix ending before t is kept when the cell reference r1 follows it,
\* and given up for a cell reference at p otherwise
PrefixOrNot(f, p, t, r1) ==
    IF r1.ok THEN PrefixedRef(r1, t) ELSE PrefixedRef(MatchCellRef(f, p), p)

\* sheet_prefix cell_ref at p, t being the end of the _token match at p
AfterToken(f, p, t) ==
    IF t = 0 THEN PrefixedRef(MatchCellRef(f, p), p)
    ELSE PrefixOrNot(f, p, t, MatchCellRef(f, t))

\* sheet_prefix cell_ref at p: the prefix is tried first
MatchPrefixedRef(f, p) == AfterToken(f, p, MatchToken(f, p))

NoRef == [ok |-> FALSE, end |-> 0, groups |-> NoGroups, ref |-> 0]

\* the match object: m.groups() always has the ten groups of the pattern; the
\* groups of an absent second reference are None
MatchObject(p, m1, m2) ==
    [ok |-> m1.ok, start |-> p,
     end |-> IF m2.ok THEN m2.end ELSE m1.end,
     groups |-> m1.groups \o m2.groups,
     ref1 |-> m1.ref, end1 |-> m1.end, range |-> m2.ok,
     ref2 |-> IF m2.ok THEN m2.ref ELSE 0]

\* the optional (?::sheet_prefix cell_ref)? after the first reference m1
AfterFirstRef(f, p, m1) ==
    IF m1.ok /\ At(f, m1.end) = ":"
    THEN MatchObject(p, m1, MatchPrefixedRef(f, m1.end + 1))
    ELSE MatchObject(p, m1, NoRef)

\* cell_or_range_pattern.match at p
MatchAt(f, p) == AfterFirstRef(f, p, MatchPrefixedRef(f, p))

\* m.group(0)
MatchText(f, m) == SubSeq(f, m.start, m.end - 1)

\* the matches re.sub visits: leftmost first, each search resuming at the
\* end of the previous match
RECURSIVE MatchesFrom(_, _)
MatchesAfter(f, p, m) ==
    IF m.ok THEN <<m>> \o MatchesFrom(f, m.end) ELSE MatchesFrom(f, p + 1)

MatchesFrom(f, p) ==
    IF p > Len(f) THEN <<>> ELSE MatchesAfter(f, p, MatchAt(f, p))

(***************************************************************************)
(* _shift_one and shift_formula_refs                                       *)
(***************************************************************************)
\* the body of _shift_one after its first two lines
ShiftOneTail(col_abs, col_letters, row_abs, row_number, drow, dcol) ==
    LET col_idx == column_index_from_string(col_letters)
    IN  IF col_idx.exc # "" THEN col_idx
        ELSE LET new_col_idx == Max({1, IF col_abs = <<"$">> THEN col_idx.val
                                                             ELSE col_idx.val + dcol})
                 new_row     == Max({1, IF row_abs = <<"$">> THEN row_number
                                                             ELSE row_number + drow})
                 letter      == get_column_letter(new_col_idx)
             IN  IF letter.exc # "" THEN letter
                 ELSE Ok(Fmt(col_abs) \o letter.val \o row_abs \o IntToStr(new_row))

shift_one(groups, drow, dcol) ==
    IF Len(groups) # 5 THEN Raise("ValueError")
    ELSE LET col_abs     == groups[1]
             col_letters == groups[2]
             row_part    == groups[3]
             row_num1    == groups[4]
             row_num2    == groups[5]
         IN  IF row_part = None THEN Raise("AttributeError")
             ELSE LET row_abs    == IF StartsWith(row_part, <<"$">>) THEN <<"$">> ELSE <<>>
                      row_number == PyInt(PyOr(row_num1, row_num2))
                  IN  IF row_number.exc # "" THEN row_number
                      ELSE ShiftOneTail(col_abs, col_letters, row_abs, row_number.val,
                                        drow, dcol)

\* InsideQuotes with the quotes of the whole formula counted, not those
\* before the match
InsideQuotesWholeFormula(formula, m) == CountChar(formula, "\"") % 2 = 1

\* the parity test of repl: the match starts inside a "..." literal
InsideQuotes(formula, m) == CountChar(SubSeq(formula, 1, m.start - 1), "\"") % 2 = 1

\* g[1:6] and g[6:] of the ten groups (Python slices, 0-based)
LeftGroups(g) == SubSeq(g, 2, 6)

RightGroups(g) == SubSeq(g, 7, Len(g))

\* repl(m), the replacement text of one match
repl(formula, m, drow, dcol) ==
    IF InsideQuotes(formula, m) THEN Ok(MatchText(formula, m))
    ELSE LET g == m.groups
         IN  IF Len(g) = 10
             THEN LET left == shift_one(LeftGroups(g), drow, dcol)
                  IN  IF left.exc # "" THEN left
                      ELSE LET right == shift_one(RightGroups(g), drow, dcol)
                           IN  IF right.exc # "" THEN right
                               ELSE Ok(left.val \o <<":">> \o right.val)
             ELSE shift_one(g, drow, dcol)

\* text followed by the rest of the substitution
Prepend(text, rest) == IF rest.exc # "" THEN rest ELSE Ok(text \o rest.val)

\* cell_or_range_pattern.sub(repl, formula) from position p on: the search
\* finds the leftmost match, repl gives its replacement (or raises), and the
\* search resumes at the end of the match
RECURSIVE SubFrom(_, _, _, _)
SubReplaced(formula, m, r, drow, dcol) ==
    IF r.exc # "" THEN r ELSE Prepend(r.val, SubFrom(formula, m.end, drow, dcol))

SubAt(formula, p, m, drow, dcol) ==
    IF m.ok THEN SubReplaced(formula, m, repl(formula, m, drow, dcol), drow, dcol)
    ELSE Prepend(<<formula[p]>>, SubFrom(formula, p + 1, drow, dcol))

SubFrom(formula, p, drow, dcol) ==
    IF p > Len(formula) THEN Ok(<<>>)
    ELSE SubAt(formula, p, MatchAt(formula, p), drow, dcol)

INDIRECT == <<"I","N","D","I","R","E","C","T">>

ADDRESS == <<"A","D","D","R","E","S","S">>

\* isinstance(v, str) and v.startswith("="), for a text v
IsFormulaText(s) == StartsWith(s, <<"=">>)

\* IsVolatile without the upper-casing
IsVolatileCaseSensitive(formula) ==
    Contains(formula, INDIRECT) \/ Contains(formula, ADDRESS)

\* the guard of shift_formula_refs that returns the formula as it is
IsVolatile(formula) ==
    LET up == StrUpper(formula)
    IN  Contains(up, INDIRECT) \/ Contains(up, ADDRESS)

shift_formula_refs(formula, drow, dcol) ==
    IF ~IsFormulaText(formula) THEN Ok(formula)
    ELSE IF IsVolatile(formula) THEN Ok(formula)
    ELSE SubFrom(formula, 1, drow, dcol)

(***************************************************************************)
(* Cell values, cells and sheets (openpyxl)                                *)
(*                                                                         *)
(* A cell value is [t, s, n]: t is "none", "str", "num" or "bool"; s is    *)
(* the text of a "str", n the number of a "num" and 0/1 for a "bool".      *)
(* A sheet is [cells, widths]: cells maps the coordinates <<row, column>>  *)
(* that exist to [value, style], widths maps the column letters that have  *)
(* a column dimension to its width.                                        *)
(***************************************************************************)
NoneV == [t |-> "none", s |-> <<>>, n |-> 0]

StrV(s) == [t |-> "str", s |-> s, n |-> 0]

NumV(n) == [t |-> "num", s |-> <<>>, n |-> n]

BoolV(b) == [t |-> "bool", s |-> <<>>, n |-> IF b THEN 1 ELSE 0]

\* Python truth value of a cell value
Truthy(v) ==
    IF v.t = "str" THEN v.s # <<>>
    ELSE IF v.t = "none" THEN FALSE
    ELSE v.n # 0

\* the five attributes copy_range_adjusting assigns, and protection, which
\* it does not
Style(x) == [font |-> x, fill |-> x, border |-> x, alignment |-> x,
             number_format |-> x, protection |-> x]

DefaultCell == [value |-> NoneV, style |-> Style("default")]

\* ws.cell(row=r, column=c) raises ValueError below row or column 1
CellInSheet(r, c) == r >= 1 /\ c >= 1

\* the cell ws.cell(row=r, column=c) yields (a fresh empty one when absent)
CellOf(ws, r, c) ==
    IF <<r, c>> \in DOMAIN ws.cells THEN ws.cells[<<r, c>>] ELSE DefaultCell

\* ws.max_row
max_row(ws) ==
    IF DOMAIN ws.cells = {} THEN 1 ELSE Max({rc[1] : rc \in DOMAIN ws.cells})

PutCell(ws, r, c, cell) ==
    [ws EXCEPT !.cells = (<<r, c>> :> cell) @@ ws.cells]

PutWidth(ws, letter, w) ==
    [ws EXCEPT !.widths = (letter :> w) @@ ws.widths]

EmptySheet == [cells |-> <<>>, widths |-> <<>>]

(***************************************************************************)
(* normalize_text and find_anchor_row                                      *)
(***************************************************************************)
\* s.strip()
Strip(s) ==
    LET keep == {i \in 1..Len(s) : s[i] \notin SpaceSet}
    IN  IF keep = {} THEN <<>> ELSE SubSeq(s, Min(keep), Max(keep))

\* s.replace(c, "") for a one-character c
RECURSIVE RemoveChar(_, _)
RemoveChar(s, c) ==
    IF s = <<>> THEN <<>>
    ELSE (IF Head(s) = c THEN <<>> ELSE <<Head(s)>>) \o RemoveChar(Tail(s), c)

\* (s or "").strip().replace(":", "").casefold(); a truthy value that is no
\* text has no strip()
normalize_text(v) ==
    IF ~Truthy(v) THEN Ok(<<>>)
    ELSE IF v.t # "str" THEN Raise("AttributeError")
    ELSE Ok(StrCasefold(RemoveChar(Strip(v.s), ":")))

\* for r in range(from, ws.max_row + 1): the first row whose normalized text
\* is the target; val = 0 when the loop ends without a return
RECURSIVE ScanColumn(_, _, _, _)
ScanColumn(ws, col_idx, target, r) ==
    IF r > max_row(ws) THEN Ok(0)
    ELSE LET n == normalize_text(CellOf(ws, r, col_idx).value)
         IN  IF n.exc # "" THEN n
             ELSE IF n.val = target THEN Ok(r)
             ELSE ScanColumn(ws, col_idx, target, r + 1)

\* the fallback scan of column C
ScanFallback(ws, col_letter, target) ==
    IF StrUpper(col_letter) # <<"C">>
    THEN ScanColumn(ws, column_index_from_string(<<"C">>).val, target, 1)
    ELSE Ok(0)

find_anchor_row(ws, col_letter, search_text) ==
    LET target  == normalize_text(search_text)
        col_idx == column_index_from_string(col_letter)
    IN  IF target.exc # "" THEN target
        ELSE IF col_idx.exc # "" THEN col_idx
        ELSE LET first == ScanColumn(ws, col_idx.val, target.val, 1)
             IN  IF first.exc # "" \/ first.val # 0 THEN first
                 ELSE LET second == ScanFallback(ws, col_letter, target.val)
                      IN  IF second.exc # "" \/ second.val # 0 THEN second
                          ELSE Raise("ValueError")

(***************************************************************************)
(* copy_range_adjusting: the parse of its arguments                        *)
(***************************************************************************)
\* s.split(c)
RECURSIVE SplitOn(_, _)
SplitOn(s, c) ==
    LET idx == {i \in 1..Len(s) : s[i] = c}
    IN  IF idx = {} THEN <<s>>
        ELSE <<SubSeq(s, 1, Min(idx) - 1)>> \o SplitOn(SubSeq(s, Min(idx) + 1, Len(s)), c)

\* the column letters and row of a cell name: ''.join(filter(str.isalpha, s))
\* through column_index_from_string, int(''.join(filter(str.isdigit, s)))
ParseCellName(s) ==
    LET row == PyInt(FilterChars(s, DigitSet))
        col == column_index_from_string(FilterChars(s, UpperSet \cup LowerSet))
    IN  IF row.exc # "" THEN row
        ELSE IF col.exc # "" THEN col
        ELSE Ok([row |-> row.val, col |-> col.val])

\* the locals of copy_range_adjusting before its loops; r_off, c_off and j are
\* the loop variables
CopyLocals(range, dst_cell) ==
    LET parts == SplitOn(range, ":")
    IN  IF Len(parts) # 2 THEN Raise("ValueError")
        ELSE LET start == ParseCellName(parts[1])
                 end   == ParseCellName(parts[2])
                 dst   == ParseCellName(dst_cell)
             IN  IF start.exc # "" THEN start
                 ELSE IF end.exc # "" THEN end
                 ELSE IF dst.exc # "" THEN dst
                 ELSE Ok([src_start_row |-> start.val.row,
                          src_start_col |-> start.val.col,
                          num_rows      |-> end.val.row - start.val.row + 1,
                          num_cols      |-> end.val.col - start.val.col + 1,
                          dst_start_row |-> dst.val.row,
                          dst_start_col |-> dst.val.col,
                          drow          |-> dst.val.row - start.val.row,
                          dcol          |-> dst.val.col - start.val.col,
                          r_off |-> 0, c_off |-> 0, j |-> 0])

\* loops that would run once over an empty range(num_rows)
HasCellsOrNoRows(l) == l.num_rows >= 0 /\ l.num_cols > 0

\* range(num_rows) and range(num_cols) both yield an offset: the loop body runs
HasCells(l) == l.num_rows > 0 /\ l.num_cols > 0

NoLocals == [src_start_row |-> 0, src_start_col |-> 0, num_rows |-> 0, num_cols |-> 0,
             dst_start_row |-> 0, dst_start_col |-> 0, drow |-> 0, dcol |-> 0,
             r_off |-> 0, c_off |-> 0, j |-> 0]

\* the value stored in the destination cell for the source value val
CopiedValue(val, drow, dcol) ==
    IF val.t = "str" /\ IsFormulaText(val.s)
    THEN LET r == shift_formula_refs(val.s, drow, dcol)
         IN  IF r.exc # "" THEN r ELSE Ok(StrV(r.val))
    ELSE Ok(val)

\* dst after the five style assignments from src
CopiedStyle(src, dst) ==
    [dst EXCEPT !.font = src.font, !.fill = src.fill, !.border = src.border,
                !.alignment = src.alignment, !.number_format = src.number_format]

\* `dim and dim.width` for the dimension of a column letter
HasWidth(ws, letter) == letter \in DOMAIN ws.widths /\ ws.widths[letter] # 0

\* status codes the transport helpers accept
ResolveAccepted(status_code) == status_code = 200

DownloadAccepted(status_code) == status_code \in {200, 302}

\* an upload check that takes every answer of the server for a success
UploadAcceptedAny(status_code) == status_code \in {200, 201, 500}

UploadAccepted(status_code) == status_code \in {200, 201}

\* the status code of the error response for an exception class
ErrorCode(e) == IF e = "ValueError" THEN 400 ELSE 500

(***************************************************************************)
(* State                                                                   *)
(***************************************************************************)
VARIABLES
    pc,             \* where the program is
    exc,            \* class of the exception being propagated, "" if none
    formula,        \* shift_formula_refs: its formula argument
    delta,          \* shift_formula_refs: <<drow, dcol>>
    shifted,        \* shift_formula_refs: what the call produced
    body,           \* the JSON body of the request
    remote,         \* the two drive items: [src, dst], each sheet name -> sheet
    ws_src,         \* the source worksheet
    wb_dst,         \* the destination workbook as loaded
    ws_dst,         \* the destination worksheet (the live object)
    anchor_row,     \* what find_anchor_row returned
    src_range,      \* copy_range_adjusting: src_range
    dst_start_cell, \* copy_range_adjusting: dst_start_cell
    loc,            \* copy_range_adjusting: its locals
    saved,          \* the bytes wb_dst.save wrote, as the workbook they encode
    uploads,        \* the PUT requests sent, in order
    response        \* the response returned

vars == <<pc, exc, formula, delta, shifted, body, remote, ws_src, wb_dst, ws_dst,
          anchor_row, src_range, dst_start_cell, loc, saved, uploads, response>>

EmptyMap == [x \in {} |-> 0]

NoBook == EmptyMap

NoResponse == [code |-> 0, status |-> "", paste_start |-> <<>>, rows |-> 0, cols |-> 0]

NoBody == [ok |-> FALSE, source_sheet |-> "", source_range |-> <<>>, dest_sheet |-> "",
           search_col_letter |-> <<>>, search_text |-> <<>>, offset_rows |-> 0]

(***************************************************************************)
(* Inputs                                                                  *)
(***************************************************************************)
\* texts used by the inputs
REL == <<"B","1","1">>

ABS == <<"$","B","$","1">>

MIX == <<"A","$","2">>

BARE == <<"S","h","e","e","t","1","!">>

QUOTED == <<"'","S"," ","1","'","!">>

INDIRECT_CALL == <<"I","N","D","I","R","E","C","T","(">>

ADDRESS_CALL == <<"A","d","d","r","e","s","s","(">>

SUM_CALL == <<"S","U","M","(">>

TXT_TOTAL_SP == <<" ","T","o","t","a","l"," ">>

TXT_TOTAL_COLON == <<"t","o","t","a","l",":">>

TXT_SEARCH == <<"T","o","t","a","l",":">>

RNG_B10_C11 == <<"B","1","0",":","C","1","1">>

RNG_ROWS_INVERTED == <<"B","1","1",":","C","1","0">>

RNG_COLS_INVERTED == <<"C","1","0",":","B","1","1">>

RNG_BOTH_INVERTED == <<"C","1","1",":","B","1","0">>

RNG_C10_C10 == <<"C","1","0",":","C","1","0">>

RNG_NO_COLON == <<"B","1","0">>

F_B11 == <<"=","B","1","1">>

F_INDIRECT == <<"=","I","N","D","I","R","E","C","T","(","\"","B","1","1","\"",")">>

F_QUOTED == <<"=","\"","B","5","\"">>

\* the pieces formulas under test are assembled from
FormulaPieces ==
    { REL, ABS, MIX, <<":">>, <<"\"">>, BARE, QUOTED, INDIRECT_CALL, ADDRESS_CALL, SUM_CALL }

RECURSIVE Concat(_)
Concat(ss) == IF ss = <<>> THEN <<>> ELSE Head(ss) \o Concat(Tail(ss))

PieceSeqs == UNION { [1..n -> FormulaPieces] : n \in 0..MaxPieces }

\* formulas, and texts that are no formula for want of the leading "="
Formulas == { lead \o Concat(ps) : lead \in {<<"=">>, <<>>}, ps \in PieceSeqs }

Deltas == { <<12, 0>>, <<-30, -3>>, <<1, 1>> }

\* values of the cells the anchor locator scans
AnchorValues == { NoneV, StrV(TXT_TOTAL_SP), StrV(TXT_TOTAL_COLON), StrV(<<"x">>), NumV(5) }

AnchorColumns == { <<"B">>, <<"C">>, <<"D">>, <<"c">> }

\* a destination sheet for the anchor locator: the cells of columns B and C in
\* rows 1..MaxRow hold the values b[1..MaxRow] and c[1..MaxRow]
AnchorSheet(b, c) ==
    [cells |-> [rc \in (1..MaxRow) \X {2, 3} |->
                   [value |-> IF rc[2] = 2 THEN b[rc[1]] ELSE c[rc[1]],
                    style |-> Style("dst")]],
     widths |-> EmptyMap]

SrcRanges == { RNG_B10_C11, RNG_ROWS_INVERTED, RNG_COLS_INVERTED, RNG_BOTH_INVERTED,
               RNG_C10_C10, RNG_NO_COLON }

SrcCell(v) == [value |-> v, style |-> Style("src")]

\* source sheets: B10:C11 = [[10, c10], ["x", c11]], widths of B and C as given
\* (a width of -1 stands for: the column has no dimension)
SrcSheet(c10, c11, wB, wC) ==
    [cells  |-> (<<10, 2>> :> SrcCell(NumV(10))) @@ (<<10, 3>> :> SrcCell(c10)) @@
                (<<11, 2>> :> SrcCell(StrV(<<"x">>))) @@ (<<11, 3>> :> SrcCell(c11)),
     widths |-> [l \in {l \in {<<"B">>, <<"C">>} :
                          (IF l = <<"B">> THEN wB ELSE wC) >= 0} |->
                    IF l = <<"B">> THEN wB ELSE wC]]

SrcSheets ==
    { SrcSheet(c10, c11, wB, wC) :
        c10 \in { StrV(F_B11), StrV(F_INDIRECT), StrV(F_QUOTED), NumV(7) },
        c11 \in { NumV(5), BoolV(TRUE) },
        wB \in { -1, 15 }, wC \in { -1, 0, 15 } }

DstCell(v) == [value |-> v, style |-> Style("dst")]

DstWidths == (<<"B">> :> 20) @@ (<<"C">> :> 9) @@ (<<"F">> :> 20)

\* destination sheets: the anchor in B20, in C7 only, in B2, or nowhere
DstSheets ==
    { [cells |-> (<<20, 2>> :> DstCell(StrV(TXT_TOTAL_COLON))) @@
                 (<<22, 2>> :> DstCell(StrV(<<"o","l","d">>))),
       widths |-> DstWidths],
      [cells |-> (<<7, 3>> :> DstCell(StrV(TXT_TOTAL_SP))) @@
                 (<<9, 3>> :> DstCell(NumV(1))),
       widths |-> DstWidths],
      [cells |-> (<<2, 2>> :> DstCell(StrV(TXT_TOTAL_COLON))) @@
                 (<<3, 2>> :> DstCell(StrV(<<"o","l","d">>))),
       widths |-> DstWidths],
      [cells |-> (<<20, 2>> :> DstCell(StrV(<<"x">>))),
       widths |-> DstWidths] }

\* B22, E3, and ZZZ3 in the last column a sheet can have
DstStartCells == { <<"B","2","2">>, <<"E","3">>, <<"Z","Z","Z","3">> }

GoodBodies ==
    { [ok |-> TRUE, source_sheet |-> "Ventas", source_range |-> r, dest_sheet |-> "Informe",
       search_col_letter |-> c, search_text |-> TXT_SEARCH, offset_rows |-> o] :
      r \in SrcRanges, c \in {<<"B">>, <<"D">>}, o \in {-5, -2, 0, 2} }

BaseBody ==
    [ok |-> TRUE, source_sheet |-> "Ventas", source_range |-> RNG_B10_C11,
     dest_sheet |-> "Informe", search_col_letter |-> <<"B">>,
     search_text |-> TXT_SEARCH, offset_rows |-> 2]

\* a body without a required key, and bodies naming a sheet that is absent
BadBodies ==
    { [BaseBody EXCEPT !.ok = FALSE],
      [BaseBody EXCEPT !.source_sheet = "Resumen"],
      [BaseBody EXCEPT !.dest_sheet = "Resumen"] }

Bodies == GoodBodies \cup BadBodies

(***************************************************************************)
(* Actions                                                                 *)
(***************************************************************************)
\* raise e: control leaves the function
Throw(e) == pc' = "except" /\ exc' = e

\* a call of shift_formula_refs(formula, drow, dcol)
CallShift ==
    /\ pc = "shift"
    /\ shifted' = shift_formula_refs(formula, delta[1], delta[2])
    /\ pc' = "shifted"
    /\ UNCHANGED <<exc, formula, delta, body, remote, ws_src, wb_dst, ws_dst, anchor_row,
                   src_range, dst_start_cell, loc, saved, uploads, response>>

\* copy_range_endpoint: reading the body
ParseBody ==
    /\ pc = "request"
    /\ IF body.ok THEN pc' = "token" /\ exc' = exc ELSE Throw("KeyError")
    /\ UNCHANGED <<formula, delta, shifted, body, remote, ws_src, wb_dst, ws_dst, anchor_row,
                   src_range, dst_start_cell, loc, saved, uploads, response>>

\* get_graph_token
GetToken ==
    /\ pc = "token"
    /\ \E has_token \in BOOLEAN :
          IF has_token THEN pc' = "resolve_src" /\ exc' = exc ELSE Throw("RuntimeError")
    /\ UNCHANGED <<formula, delta, shifted, body, remote, ws_src, wb_dst, ws_dst, anchor_row,
                   src_range, dst_start_cell, loc, saved, uploads, response>>

\* resolve_share_to_item(source_sharing_url, token)
ResolveSrc ==
    /\ pc = "resolve_src"
    /\ \E status_code \in {200, 404} :
          IF ResolveAccepted(status_code) THEN pc' = "download_src" /\ exc' = exc
          ELSE Throw("RuntimeError")
    /\ UNCHANGED <<formula, delta, shifted, body, remote, ws_src, wb_dst, ws_dst, anchor_row,
                   src_range, dst_start_cell, loc, saved, uploads, response>>

\* download_item_content, load_workbook and the choice of the source sheet
DownloadSrc ==
    /\ pc = "download_src"
    /\ \E status_code \in {200, 302, 404} :
          IF ~DownloadAccepted(status_code) THEN Throw("RuntimeError") /\ ws_src' = ws_src
          ELSE IF body.source_sheet \notin DOMAIN remote.src
          THEN Throw("RuntimeError") /\ ws_src' = ws_src
          ELSE pc' = "resolve_dst" /\ exc' = exc /\ ws_src' = remote.src[body.source_sheet]
    /\ UNCHANGED <<formula, delta, shifted, body, remote, wb_dst, ws_dst, anchor_row,
                   src_range, dst_start_cell, loc, saved, uploads, response>>

\* resolve_share_to_item(dest_sharing_url, token)
ResolveDst ==
    /\ pc = "resolve_dst"
    /\ \E status_code \in {200, 404} :
          IF ResolveAccepted(status_code) THEN pc' = "download_dst" /\ exc' = exc
          ELSE Throw("RuntimeError")
    /\ UNCHANGED <<formula, delta, shifted, body, remote, ws_src, wb_dst, ws_dst, anchor_row,
                   src_range, dst_start_cell, loc, saved, uploads, response>>

\* download_item_content, load_workbook and the choice of the destination sheet
DownloadDst ==
    /\ pc = "download_dst"
    /\ \E status_code \in {200, 302, 404} :
          IF ~DownloadAccepted(status_code)
          THEN Throw("RuntimeError") /\ UNCHANGED <<wb_dst, ws_dst>>
          ELSE IF body.dest_sheet \notin DOMAIN remote.dst
          THEN Throw("RuntimeError") /\ wb_dst' = remote.dst /\ ws_dst' = ws_dst
          ELSE /\ pc' = "find_anchor" /\ exc' = exc
               /\ wb_dst' = remote.dst
               /\ ws_dst' = remote.dst[body.dest_sheet]
    /\ UNCHANGED <<formula, delta, shifted, body, remote, ws_src, anchor_row,
                   src_range, dst_start_cell, loc, saved, uploads, response>>

\* anchor_row = find_anchor_row(ws_dst, search_col_letter, search_text)
FindAnchor ==
    /\ pc = "find_anchor"
    /\ LET r == find_anchor_row(ws_dst, body.search_col_letter, StrV(body.search_text))
       IN  IF r.exc # "" THEN Throw(r.exc) /\ anchor_row' = anchor_row
           ELSE pc' = "paste" /\ exc' = exc /\ anchor_row' = r.val
    /\ UNCHANGED <<formula, delta, shifted, body, remote, ws_src, wb_dst, ws_dst,
                   src_range, dst_start_cell, loc, saved, uploads, response>>

\* paste_start_row = anchor_row + offset_rows; dst_start_cell = f"B{paste_start_row}";
\* the call of copy_range_adjusting
ComputePaste ==
    /\ pc = "paste"
    /\ dst_start_cell' = <<"B">> \o IntToStr(anchor_row + body.offset_rows)
    /\ src_range' = body.source_range
    /\ pc' = "copy_parse"
    /\ UNCHANGED <<exc, formula, delta, shifted, body, remote, ws_src, wb_dst, ws_dst,
                   anchor_row, loc, saved, uploads, response>>

\* copy_range_adjusting up to its loops
CopyParse ==
    /\ pc = "copy_parse"
    /\ LET l == CopyLocals(src_range, dst_start_cell)
       IN  IF l.exc # "" THEN Throw(l.exc) /\ loc' = loc
           ELSE /\ loc' = l.val
                /\ exc' = exc
                /\ pc' = IF HasCells(l.val) THEN "cells" ELSE "widths"
    /\ UNCHANGED <<formula, delta, shifted, body, remote, ws_src, wb_dst, ws_dst, anchor_row,
                   src_range, dst_start_cell, saved, uploads, response>>

\* one pass of the inner loop: the cell at (r_off, c_off)
CopyCell ==
    /\ pc = "cells"
    /\ LET r_src == loc.src_start_row + loc.r_off
           c_src == loc.src_start_col + loc.c_off
           r_dst == loc.dst_start_row + loc.r_off
           c_dst == loc.dst_start_col + loc.c_off
           src   == CellOf(ws_src, r_src, c_src)
           dst   == CellOf(ws_dst, r_dst, c_dst)
           val   == CopiedValue(src.value, loc.drow, loc.dcol)
           last_col == loc.c_off + 1 >= loc.num_cols
           last_row == loc.r_off + 1 >= loc.num_rows
       IN  IF ~CellInSheet(r_src, c_src) THEN Throw("ValueError") /\ UNCHANGED <<ws_dst, loc>>
           ELSE IF ~CellInSheet(r_dst, c_dst)
           THEN Throw("ValueError") /\ UNCHANGED <<ws_dst, loc>>
           ELSE IF val.exc # "" THEN Throw(val.exc) /\ UNCHANGED <<ws_dst, loc>>
           ELSE /\ ws_dst' = PutCell(ws_dst, r_dst, c_dst,
                                     [value |-> val.val,
                                      style |-> CopiedStyle(src.style, dst.style)])
                /\ loc' = [loc EXCEPT !.c_off = IF last_col THEN 0 ELSE loc.c_off + 1,
                                      !.r_off = IF last_col THEN loc.r_off + 1 ELSE loc.r_off]
                /\ pc' = IF last_col /\ last_row THEN "widths" ELSE "cells"
                /\ exc' = exc
    /\ UNCHANGED <<formula, delta, shifted, body, remote, ws_src, wb_dst, anchor_row,
                   src_range, dst_start_cell, saved, uploads, response>>

\* one pass of the column-width loop: column offset j
CopyWidth ==
    /\ pc = "widths"
    /\ loc.j < loc.num_cols
    /\ LET src_letter == get_column_letter(loc.src_start_col + loc.j)
           dst_letter == get_column_letter(loc.dst_start_col + loc.j)
       IN  IF src_letter.exc # "" THEN Throw(src_letter.exc) /\ UNCHANGED <<ws_dst, loc>>
           ELSE IF dst_letter.exc # ""
           THEN Throw(dst_letter.exc) /\ UNCHANGED <<ws_dst, loc>>
           ELSE /\ ws_dst' = IF HasWidth(ws_src, src_letter.val)
                             THEN PutWidth(ws_dst, dst_letter.val,
                                           ws_src.widths[src_letter.val])
                             ELSE ws_dst
                /\ loc' = [loc EXCEPT !.j = loc.j + 1]
                /\ UNCHANGED <<pc, exc>>
    /\ UNCHANGED <<formula, delta, shifted, body, remote, ws_src, wb_dst, anchor_row,
                   src_range, dst_start_cell, saved, uploads, response>>

\* copy_range_adjusting returns
CopyReturn ==
    /\ pc = "widths"
    /\ loc.j >= loc.num_cols
    /\ pc' = "copied"
    /\ UNCHANGED <<exc, formula, delta, shifted, body, remote, ws_src, wb_dst, ws_dst,
                   anchor_row, src_range, dst_start_cell, loc, saved, uploads, response>>

\* wb_dst.save(out): the workbook with the destination sheet as it now is
Save ==
    /\ pc = "copied"
    /\ saved' = <<[wb_dst EXCEPT ![body.dest_sheet] = ws_dst]>>
    /\ pc' = "upload"
    /\ UNCHANGED <<exc, formula, delta, shifted, body, remote, ws_src, wb_dst, ws_dst,
                   anchor_row, src_range, dst_start_cell, loc, uploads, response>>

\* upload_item_content: the PUT and the check of its status
Upload ==
    /\ pc = "upload"
    /\ \E status_code \in {200, 201, 500} :
          /\ uploads' = Append(uploads, [content |-> saved[1], status_code |-> status_code])
          /\ IF UploadAccepted(status_code)
             THEN pc' = "respond" /\ exc' = exc /\ remote' = [remote EXCEPT !.dst = saved[1]]
             ELSE Throw("RuntimeError") /\ remote' = remote
    /\ UNCHANGED <<formula, delta, shifted, body, ws_src, wb_dst, ws_dst, anchor_row,
                   src_range, dst_start_cell, loc, saved, response>>

\* the success record
Respond ==
    /\ pc = "respond"
    /\ response' = [code |-> 200, status |-> "ok", paste_start |-> dst_start_cell,
                    rows |-> loc.num_rows, cols |-> loc.num_cols]
    /\ pc' = "done"
    /\ UNCHANGED <<exc, formula, delta, shifted, body, remote, ws_src, wb_dst, ws_dst,
                   anchor_row, src_range, dst_start_cell, loc, saved, uploads>>

\* the except clauses of copy_range_endpoint
HandleException ==
    /\ pc = "except"
    /\ response' = [NoResponse EXCEPT !.code = ErrorCode(exc), !.status = "error"]
    /\ pc' = "done"
    /\ UNCHANGED <<exc, formula, delta, shifted, body, remote, ws_src, wb_dst, ws_dst,
                   anchor_row, src_range, dst_start_cell, loc, saved, uploads>>

(***************************************************************************)
(* Specifications                                                          *)
(***************************************************************************)
\* what every specification starts from, apart from its inputs
Idle ==
    /\ exc = ""
    /\ anchor_row = 0
    /\ loc = NoLocals
    /\ saved = <<>>
    /\ uploads = <<>>
    /\ response = NoResponse
    /\ shifted = Ok(<<>>)

\* /copy-range: a request arrives
Init ==
    /\ Idle
    /\ pc = "request"
    /\ body \in Bodies
    /\ remote \in { [src |-> ("Ventas" :> s), dst |-> ("Informe" :> d)] :
                      s \in SrcSheets, d \in DstSheets }
    /\ formula = <<>> /\ delta = <<0, 0>>
    /\ ws_src = EmptySheet /\ ws_dst = EmptySheet /\ wb_dst = NoBook
    /\ src_range = <<>> /\ dst_start_cell = <<>>

Next ==
    \/ ParseBody \/ GetToken \/ ResolveSrc \/ DownloadSrc \/ ResolveDst \/ DownloadDst
    \/ FindAnchor \/ ComputePaste \/ CopyParse \/ CopyCell \/ CopyWidth \/ CopyReturn
    \/ Save \/ Upload \/ Respond \/ HandleException

Spec == Init /\ [][Next]_vars

\* shift_formula_refs on every formula and delta of the bounded input sets
InitShift ==
    /\ Idle
    /\ pc = "shift"
    /\ formula \in Formulas
    /\ delta \in Deltas
    /\ body = NoBody /\ remote = [src |-> NoBook, dst |-> NoBook]
    /\ ws_src = EmptySheet /\ ws_dst = EmptySheet /\ wb_dst = NoBook
    /\ src_range = <<>> /\ dst_start_cell = <<>>

NextShift == CallShift

SpecShift == InitShift /\ [][NextShift]_vars

\* find_anchor_row on every sheet, column and search text of the input sets
InitAnchor ==
    /\ Idle
    /\ pc = "find_anchor"
    /\ \E b \in [1..MaxRow -> AnchorValues], c \in [1..MaxRow -> AnchorValues] :
          ws_dst = AnchorSheet(b, c)
    /\ body \in { [NoBody EXCEPT !.search_col_letter = c, !.search_text = TXT_SEARCH] :
                    c \in AnchorColumns }
    /\ formula = <<>> /\ delta = <<0, 0>>
    /\ remote = [src |-> NoBook, dst |-> NoBook]
    /\ ws_src = EmptySheet /\ wb_dst = NoBook
    /\ src_range = <<>> /\ dst_start_cell = <<>>

NextAnchor == FindAnchor

SpecAnchor == InitAnchor /\ [][NextAnchor]_vars

\* copy_range_adjusting on every pair of sheets, range and start cell of the
\* input sets
InitCopy ==
    /\ Idle
    /\ pc = "copy_parse"
    /\ ws_src \in SrcSheets
    /\ ws_dst \in DstSheets
    /\ src_range \in SrcRanges
    /\ dst_start_cell \in DstStartCells
    /\ formula = <<>> /\ delta = <<0, 0>>
    /\ body = NoBody /\ remote = [src |-> NoBook, dst |-> NoBook]
    /\ wb_dst = NoBook

NextCopy == CopyParse \/ CopyCell \/ CopyWidth \/ CopyReturn

SpecCopy == InitCopy /\ [][NextCopy]_vars

(***************************************************************************)
(* The rewriting the specification describes (sections 4.2 and 4.3), used  *)
(* to state the claims about the formula rewriter.                         *)
(***************************************************************************)
\* the translation of one endpoint, given as the five groups of cell_ref
TranslatedRef(g, drow, dcol) ==
    LET col     == LettersToIndex(g[2])
        row     == DigitsToNat(PyOr(g[4], g[5]))
        row_abs == IF g[4] # None THEN <<"$">> ELSE <<>>
        new_col == IF g[1] = <<"$">> THEN col ELSE Max({1, col + dcol})
        new_row == IF row_abs = <<"$">> THEN row ELSE Max({1, row + drow})
    IN  g[1] \o IndexToLetters(new_col) \o row_abs \o IntToStr(new_row)

\* the text that replaces the match m: each sheet qualifier as written, each
\* endpoint translated
TranslatedMatch(f, m, drow, dcol) ==
    SubSeq(f, m.start, m.ref1 - 1) \o TranslatedRef(SubSeq(m.groups, 1, 5), drow, dcol)
    \o (IF m.range
        THEN <<":">> \o SubSeq(f, m.end1 + 1, m.ref2 - 1)
                     \o TranslatedRef(SubSeq(m.groups, 6, 10), drow, dcol)
        ELSE <<>>)

\* the match m starts after an odd number of double quotes
OddQuotesBefore(f, m) == CountChar(SubSeq(f, 1, m.start - 1), "\"") % 2 = 1

RECURSIVE TranslatedFrom(_, _, _, _)
TranslatedAfter(f, p, m, drow, dcol) ==
    IF ~m.ok THEN <<f[p]>> \o TranslatedFrom(f, p + 1, drow, dcol)
    ELSE (IF OddQuotesBefore(f, m) THEN MatchText(f, m) ELSE TranslatedMatch(f, m, drow, dcol))
         \o TranslatedFrom(f, m.end, drow, dcol)

TranslatedFrom(f, p, drow, dcol) ==
    IF p > Len(f) THEN <<>> ELSE TranslatedAfter(f, p, MatchAt(f, p), drow, dcol)

\* the formula with every reference outside a string literal translated
TranslatedFormula(f, drow, dcol) == TranslatedFrom(f, 1, drow, dcol)

\* the formula names INDIRECT or ADDRESS in some letter case
NamesVolatile(f) ==
    \E i \in 1..Len(f) :
        \/ i + 7 <= Len(f)
              /\ StrUpper(SubSeq(f, i, i + 7)) = <<"I","N","D","I","R","E","C","T">>
        \/ i + 6 <= Len(f)
              /\ StrUpper(SubSeq(f, i, i + 6)) = <<"A","D","D","R","E","S","S">>

\* the matches of the formula with its sheet qualifiers, if any
Matches(f) == MatchesFrom(f, 1)

HasQualifier(m) == m.ref1 > m.start \/ (m.range /\ m.ref2 > m.end1 + 1)

(***************************************************************************)
(* Claims about shift_formula_refs, under SpecShift                        *)
(***************************************************************************)
\* C1: for every formula without INDIRECT/ADDRESS and every delta,
\* shift_formula_refs returns (it does not raise) the formula with each cell
\* reference outside a string literal replaced by its translation (relative
\* axis moved by the delta with floor 1, "$" axis unchanged, both endpoints
\* of a range translated) and every other character unchanged.
C1_ReferencesTranslated ==
    (pc = "shifted" /\ IsFormulaText(formula) /\ ~NamesVolatile(formula))
        => shifted = Ok(TranslatedFormula(formula, delta[1], delta[2]))

\* C2: for every formula with a sheet-qualified reference outside a string
\* literal, the rewritten text keeps each qualifier verbatim where it was and
\* shifts only the row/column part after it.
C2_QualifierPreserved ==
    (/\ pc = "shifted" /\ IsFormulaText(formula) /\ ~NamesVolatile(formula)
     /\ \E i \in 1..Len(Matches(formula)) :
            HasQualifier(Matches(formula)[i]) /\ ~OddQuotesBefore(formula, Matches(formula)[i]))
        => (/\ shifted.exc = ""
            /\ shifted.val = TranslatedFormula(formula, delta[1], delta[2]))

\* C4: a formula naming INDIRECT or ADDRESS in any letter case comes back from
\* shift_formula_refs byte-identical under every delta, and the value stored
\* for a cell holding it is that same text.
C4_VolatileUnchanged ==
    (pc = "shifted" /\ IsFormulaText(formula) /\ NamesVolatile(formula))
        => (/\ shifted = Ok(formula)
            /\ CopiedValue(StrV(formula), delta[1], delta[2]) = Ok(StrV(formula)))

\* C4 witness: a formula naming Address( in mixed case before a relative
\* reference was handed to shift_formula_refs and came back unchanged.
C4_Witness ==
    /\ pc = "shifted"
    /\ formula = <<"=">> \o ADDRESS_CALL \o REL
    /\ delta = <<12, 0>>
    /\ shifted = Ok(formula)

\* C5: a match that starts after an odd number of double quotes is replaced by
\* its own text, and a formula all of whose matches are such comes back
\* byte-identical; whatever text the call returns differs from the formula
\* only at matches that start after an even number of quotes.
C5_QuotedUntouched ==
    (pc = "shifted" /\ IsFormulaText(formula) /\ ~NamesVolatile(formula))
        => (/\ \A i \in 1..Len(Matches(formula)) :
                   OddQuotesBefore(formula, Matches(formula)[i])
                       => repl(formula, Matches(formula)[i], delta[1], delta[2])
                              = Ok(MatchText(formula, Matches(formula)[i]))
            /\ (\A i \in 1..Len(Matches(formula)) :
                   OddQuotesBefore(formula, Matches(formula)[i]))
                   => shifted = Ok(formula)
            /\ (shifted.exc = "" /\ shifted.val # formula)
                   => \E i \in 1..Len(Matches(formula)) :
                          ~OddQuotesBefore(formula, Matches(formula)[i]))

\* C5 witness: ="B11" (a reference inside a string literal) was rewritten
\* with a non-zero delta and came back unchanged.
C5_Witness ==
    /\ pc = "shifted"
    /\ formula = <<"=", "\"">> \o REL \o <<"\"">>
    /\ delta = <<12, 0>>
    /\ shifted = Ok(formula)

(***************************************************************************)
(* Claim about find_anchor_row, under SpecAnchor                           *)
(***************************************************************************)
\* trim, remove colons, case-fold
NormalText(s) == StrCasefold(RemoveChar(Strip(s), ":"))

\* rows 1..max_row of column c whose cell text is the search text after
\* normalization
MatchingRows(ws, c, text) ==
    { r \in 1..max_row(ws) :
        /\ CellOf(ws, r, c).value.t = "str"
        /\ NormalText(CellOf(ws, r, c).value.s) = NormalText(text) }

\* C6: find_anchor_row returns the smallest matching row of the requested
\* column; failing that, and when that column is not C, the smallest matching
\* row of column C; and it fails with the not-found error exactly when neither
\* has a matching row, whatever the other cells hold.
C6_AnchorLocated ==
    pc # "find_anchor" =>
        LET col  == LettersToIndex(StrUpper(body.search_col_letter))
            own  == MatchingRows(ws_dst, col, body.search_text)
            back == IF col # 3 THEN MatchingRows(ws_dst, 3, body.search_text) ELSE {}
        IN  IF own # {} THEN pc = "paste" /\ anchor_row = Min(own)
            ELSE IF back # {} THEN pc = "paste" /\ anchor_row = Min(back)
            ELSE pc = "except" /\ exc = "ValueError"

(***************************************************************************)
(* Claims about copy_range_adjusting, under SpecCopy                       *)
(***************************************************************************)
\* the value section 4.5 stores for a source value
ExpectedValue(v, drow, dcol) ==
    IF v.t = "str" /\ IsFormulaText(v.s) /\ ~NamesVolatile(v.s)
    THEN StrV(TranslatedFormula(v.s, drow, dcol))
    ELSE v

\* the inner loop is past the cell at offset (ro, co)
PastCell(ro, co) ==
    \/ pc \in {"widths", "copied"}
    \/ pc = "cells" /\ (ro < loc.r_off \/ (ro = loc.r_off /\ co < loc.c_off))

\* C3: for every offset of the rowCount x colCount grid, copy_range_adjusting
\* stores in the destination cell at that offset from the start cell the
\* source value, unchanged when it is no formula and rewritten with
\* Delta = (destRow - startRow, destCol - startCol) when it is one; no cell of
\* the grid makes the copy fail.  E.g. B10:C11 = [[10, "=B11"], ["x", 5]] to
\* B22 gives B22 = 10, C22 = "=B23", B23 = "x", C23 = 5.
C3_GridCopied ==
    (loc # NoLocals /\ loc.num_rows > 0 /\ loc.num_cols > 0) =>
        /\ pc = "except" => loc.r_off >= loc.num_rows
        /\ \A ro \in 0..(loc.num_rows - 1), co \in 0..(loc.num_cols - 1) :
              PastCell(ro, co) =>
                  CellOf(ws_dst, loc.dst_start_row + ro, loc.dst_start_col + co).value
                    = ExpectedValue(CellOf(ws_src, loc.src_start_row + ro,
                                           loc.src_start_col + co).value,
                                    loc.drow, loc.dcol)

\* the range's end precedes its start in a dimension
RangeInverted ==
    LET l == CopyLocals(src_range, dst_start_cell)
    IN  l.exc = "" /\ (l.val.num_rows <= 0 \/ l.val.num_cols <= 0)

ColumnsInverted == CopyLocals(src_range, dst_start_cell).val.num_cols <= 0

WidthBefore(letter) == IF letter \in DOMAIN DstWidths THEN DstWidths[letter] ELSE 0

WidthNow(letter) == IF letter \in DOMAIN ws_dst.widths THEN ws_dst.widths[letter] ELSE 0

\* C9: once copy_range_adjusting has returned from copying a range whose end
\* does not precede its start, every destination column
\* destCol + j whose source column startCol + j has an explicit width has
\* exactly that width, and every other destination column has the width it
\* had before.
C9_WidthsPropagated ==
    (pc = "copied" /\ loc.num_rows > 0 /\ loc.num_cols > 0) =>
        \A letter \in DOMAIN ws_dst.widths \cup DOMAIN DstWidths :
            LET js == { j \in 0..(loc.num_cols - 1) :
                          /\ IndexToLetters(loc.dst_start_col + j) = letter
                          /\ IndexToLetters(loc.src_start_col + j) \in DOMAIN ws_src.widths }
            IN  IF js # {}
                THEN \A j \in js :
                        /\ letter \in DOMAIN ws_dst.widths
                        /\ ws_dst.widths[letter]
                             = ws_src.widths[IndexToLetters(loc.src_start_col + j)]
                ELSE WidthNow(letter) = WidthBefore(letter)

(***************************************************************************)
(* Claims about /copy-range, under Spec                                    *)
(***************************************************************************)
\* the copy has gone through its whole rectangle and its column widths
CopyFinished ==
    /\ loc # NoLocals
    /\ loc.num_rows <= 0 \/ loc.num_cols <= 0 \/ loc.r_off >= loc.num_rows
    /\ loc.j >= loc.num_cols

\* C7, the states: at most one upload, made only of the workbook as it is
\* after a finished copy; the success record only after an upload that
\* succeeded; after a failure the response is an error.
C7_States ==
    /\ Len(uploads) <= 1
    /\ saved # <<>> => (CopyFinished /\ saved[1][body.dest_sheet] = ws_dst)
    /\ uploads # <<>> => (CopyFinished /\ uploads[1].content = saved[1])
    /\ response.status = "ok" =>
          (exc = "" /\ Len(uploads) = 1 /\ uploads[1].status_code \in {200, 201})
    /\ (pc = "done" /\ exc # "") => (response.status = "error" /\ response.code \in {400, 500})
    /\ pc = "except" => exc # ""

\* C7, the steps: once a step has failed nothing is serialized or uploaded,
\* and the failure is not forgotten.
C7_Steps ==
    exc # "" => (saved' = saved /\ uploads' = uploads /\ exc' = exc
                 /\ remote' = remote /\ pc' = "done")

\* C7: in every execution of /copy-range a failure of any step is followed by
\* no serialization and no upload and ends in an error response; the upload
\* happens at most once and only after the copy has finished the rectangle
\* and the widths; the success record comes only after a successful upload.
C7_NoUploadAfterFailure == [](C7_States) /\ [][C7_Steps]_vars

\* C7 witness: the copy failed part-way (a cell was already written), and the
\* request ended with an error response, nothing serialized, nothing uploaded.
C7_Witness ==
    /\ pc = "done"
    /\ exc = "AttributeError"
    /\ loc # NoLocals
    /\ ws_dst # wb_dst[body.dest_sheet]
    /\ saved = <<>>
    /\ uploads = <<>>
    /\ response.status = "error"

\* C10: the rectangle is written with its top-left cell in column B at row
\* anchor + offset, the row paste_start reports; when anchor + offset < 1 the
\* operation fails and no cell is written anywhere.
C10_PasteAtAnchorPlusOffset ==
    loc # NoLocals =>
        /\ loc.dst_start_col = 2
        /\ loc.dst_start_row = anchor_row + body.offset_rows
        /\ response.status = "ok" =>
              response.paste_start = <<"B">> \o IntToStr(anchor_row + body.offset_rows)
        /\ anchor_row + body.offset_rows < 1 =>
              (ws_dst.cells = wb_dst[body.dest_sheet].cells /\ response.status # "ok")

====
